---- MODULE Spec2Model ----
(***************************************************************************)
(* Model of the one-time-code authentication flow of the ServiGroww        *)
(* backend (src/src/modules/auth/auth.service.ts) together with the user   *)
(* directory operations it depends on.                                     *)
(*                                                                         *)
(* The server is a single Node.js process: the code of a handler between   *)
(* two awaits runs without interruption, and handlers of different         *)
(* requests interleave only at their awaits.  Each action below is one     *)
(* such uninterrupted segment together with the database statement whose   *)
(* completion resumes it.                                                  *)
(***************************************************************************)
EXTENDS Integers, Sequences, FiniteSets

\* ------------------------------------------------------------------ bounds
MaxTime  == 2       \* the clock runs from 0 to MaxTime
MaxReqs  == 2       \* requests that can be in flight at the same time
MaxCalls == 3       \* requests accepted in one run

\* --------------------------------------------------------------- constants
OtpTtl  == 1        \* 5 * 60 * 1000 ms: the clock counts in units of five minutes
OtpBase == 100000   \* lowest code
OtpSpan == 900000   \* number of codes

Phones == {"+919876543210"}
\* the roles register is called with (an admin gets no profile row)
Roles  == {"customer", "provider"}
Reqs   == 1..MaxReqs
\* Math.random() * 900000 floored: the draws the model enumerates
RandomDraws == {0, OtpSpan - 1}

\* the configuration: two distinct signing secrets, a short lifetime for the
\* access assertion and a longer one for the refresh assertion (units of five
\* minutes)
AccessTtl  == 1
RefreshTtl == 2
ConfigGet(key) ==
  CASE key = "jwt.secret"           -> "jwt.secret"
    [] key = "jwt.refreshSecret"    -> "jwt.refreshSecret"
    [] key = "jwt.expiresIn"        -> AccessTtl
    [] key = "jwt.refreshExpiresIn" -> RefreshTtl

ACTIVE    == "active"
SUSPENDED == "suspended"
DELETED   == "deleted"

VARIABLES
  now,        \* Date.now(), in units of five minutes
  otpStore,   \* AuthService.otpStore: a Map, modelled as a function on its keys
  users,      \* the users table: a sequence of rows, id = position
  customers,  \* the customers table: a sequence of rows
  providers,  \* the providers table: a sequence of rows, id = position
  providerWallets,  \* the provider_wallets table: a sequence of rows
  smsLogs,    \* the sms_logs table: the set of its distinct rows
  pc,         \* pc[r]: where request r stands in its handler
  req,        \* req[r]: the operation and DTO of request r
  loc,        \* loc[r]: the handler's local variables
  res,        \* the response of the handler that completed in the last step
  calls,      \* requests accepted so far
  obs         \* obs[p]: what has happened to identifier p (history, read by no action):
              \*   cur, prev    the codes of the last and of the last but one issuance
              \*   storedAt     when the last issuance stored its code
              \* and, since the last issuance,
              \*   mismatched   a verifyOtp has failed the match check
              \*   winner, winOtp, matchedAt   the request that passed the match
              \*                check, the code it carried and when it passed
              \*   gone         why the entry is gone: "expired", or "matched" and then
              \*                what became of the winner: "creds", "noaccount"
VARIABLES
  issued,     \* the assertions handed to clients so far (history: held by clients)
  accepted    \* accepted[t]: how often refreshToken has succeeded with assertion t
              \*   (history, counted up to 2)
VARIABLES
  providerServices,   \* the provider_services table: the set of its rows
  providerLocations   \* the provider_locations table (location history): its rows

\* the role profiles written by register
profiles == <<customers, providers, providerWallets>>

\* what the clients hold and have done with it
session == <<issued, accepted>>

\* the tables of the providers module besides providers itself
catalog == <<providerServices, providerLocations>>

vars == <<now, otpStore, users, profiles, smsLogs, pc, req, loc, res, calls, obs, session,
          catalog>>

\* ------------------------------------------------------------------ values
NoOtp   == <<>>
NoToken == [secret |-> "", sub |-> 0, phone |-> "", role |-> "", exp |-> 0]
NoUser  == [id |-> 0, phone |-> "", role |-> "", status |-> "", last_login_at |-> 0 - 1]
\* a JSON value of a request body: absent, null, or a number
Undefined == [tag |-> "undefined", val |-> 0]
Null      == [tag |-> "null", val |-> 0]
Num(n)    == [tag |-> "number", val |-> n]
\* a geography value: NULL, or a point (coordinates in thousandths of a degree)
NoPoint   == [known |-> FALSE, lat |-> 0, lon |-> 0]
Point(lat, lon) == [known |-> TRUE, lat |-> lat, lon |-> lon]
NoDto     == [service_id |-> "", latitude |-> Undefined, longitude |-> Undefined,
              radius_meters |-> Undefined, limit |-> Undefined]
NoProvider == [id |-> 0, user_id |-> 0, is_online |-> FALSE, is_verified |-> FALSE,
               current_location |-> NoPoint, average_rating |-> 0, completed_jobs |-> 0]
NoReq   == [op |-> "", phone |-> "", otp |-> NoOtp, role |-> "", token |-> NoToken,
            id |-> 0, flag |-> FALSE, point |-> NoPoint, dto |-> NoDto]
NoLoc   == [existingUser |-> FALSE, otp |-> NoOtp, user |-> NoUser,
            provider |-> NoProvider]
NoRes   == [op |-> "", phone |-> "", otp |-> NoOtp, token |-> NoToken, dto |-> NoDto,
            result |-> << >>,
            ok |-> FALSE, exc |-> "", msg |-> "", access_token |-> NoToken,
            refresh_token |-> NoToken, user |-> NoUser, isRegistered |-> FALSE]
NoObs   == [cur |-> NoOtp, prev |-> NoOtp, storedAt |-> 0 - 1, mismatched |-> FALSE,
            winner |-> 0, winOtp |-> NoOtp, matchedAt |-> 0 - 1, gone |-> "-"]

\* Number.prototype.toString of a six-digit integer: its decimal digits
NumberToString(n) ==
  << (n \div 100000) % 10, (n \div 10000) % 10, (n \div 1000) % 10,
     (n \div 100) % 10, (n \div 10) % 10, n % 10 >>

\* Math.floor(100000 + Math.random() * 900000).toString(), k = floor(random * 900000)
GenerateOtp(k) == NumberToString(OtpBase + k)

\* the otp strings a client submits (six characters)
SubmittedOtps == {GenerateOtp(k) : k \in RandomDraws}

\* the exceptions of the handlers
Throw(exc, msg) == [NoRes EXCEPT !.exc = exc, !.msg = msg]
\* mutant: a missing code is reported as a wrong code
NotFound_AsInvalid == Throw("UnauthorizedException", "Invalid OTP")
NotFound        == Throw("BadRequestException", "OTP not found. Please request a new OTP.")
Expired         == Throw("BadRequestException", "OTP expired. Please request a new OTP.")
Mismatch        == Throw("UnauthorizedException", "Invalid OTP")
AccountNotFound == Throw("UnauthorizedException", "User not registered. Please sign up first.")
Conflict        == Throw("ConflictException", "User with this phone number already exists")

\* the response to request rq with outcome out
Reply(rq, out) ==
  [out EXCEPT !.op = rq.op, !.phone = rq.phone, !.otp = rq.otp, !.token = rq.token,
              !.dto = rq.dto]

\* ------------------------------------------------------------ the Map
MapHas(m, k)    == k \in DOMAIN m
MapSet(m, k, v) == [x \in (DOMAIN m) \cup {k} |-> IF x = k THEN v ELSE m[x]]
\* mutant: delete removes nothing
MapDelete_Noop(m, k) == m
\* mutant: delete empties the map
MapDelete_Clear(m, k) == << >>
MapDelete(m, k) == [x \in (DOMAIN m) \ {k} |-> m[x]]

\* ------------------------------------------------------------ the tables
\* SELECT ... FROM users WHERE phone = $1 AND status = 'active'
ActiveByPhone(phone) ==
  {i \in 1..Len(users) : users[i].phone = phone /\ users[i].status = ACTIVE}
\* SELECT id FROM users WHERE phone = $1
AnyByPhone(phone) == {i \in 1..Len(users) : users[i].phone = phone}

InFlight(label) == Cardinality({r \in Reqs : pc[r] = label})
\* a new request takes the lowest idle slot (the slots are interchangeable)
Free(r) == pc[r] = "idle" /\ \A q \in Reqs : q < r => pc[q] # "idle"

\* a request is accepted
Accept == calls < MaxCalls /\ calls' = calls + 1

\* ------------------------------------------------------------------- Init
\* the users table when the server starts: empty, or holding one account that
\* is active or was suspended
InitialUsers ==
  { << >> } \cup
  { << [id |-> 1, phone |-> p, role |-> "customer", status |-> st,
        last_login_at |-> 0 - 1] >> : p \in Phones, st \in {ACTIVE, SUSPENDED} }

Init ==
  /\ now = 0
  /\ otpStore = << >>
  /\ users \in InitialUsers
  /\ customers = [i \in 1..Len(users) |-> [user_id |-> users[i].id]]
  /\ providers = << >>
  /\ providerWallets = << >>
  /\ smsLogs = {}
  /\ pc  = [r \in Reqs |-> "idle"]
  /\ req = [r \in Reqs |-> NoReq]
  /\ loc = [r \in Reqs |-> NoLoc]
  /\ res = NoRes
  /\ calls = 0
  /\ obs = [p \in Phones |-> NoObs]
  /\ issued = {}
  /\ accepted = << >>
  /\ providerServices = {}
  /\ providerLocations = {}

\* request r goes on to the segment at label
Goto(r, label) ==
  /\ pc'  = [pc EXCEPT ![r] = label]
  /\ res' = NoRes

\* the handler of request r completes with outcome out
Finish(r, rq, out) ==
  /\ pc'  = [pc EXCEPT ![r] = "idle"]
  /\ req' = [req EXCEPT ![r] = NoReq]
  /\ loc' = [loc EXCEPT ![r] = NoLoc]
  /\ res' = Reply(rq, out)

\* the clock advances
Tick ==
  /\ now < MaxTime
  /\ now' = now + 1
  /\ res' = NoRes
  /\ UNCHANGED <<calls, otpStore, users, profiles, smsLogs, pc, req, loc, obs, session, catalog>>

\* ---------------------------------------------------------------- sendOtp
\* mutant: the SELECT of the existing user does not filter on status
ExistingUser_AnyStatus(phone) == AnyByPhone(phone) # {}

\* !!existingUser: the SELECT of the active user with this phone returned a row
ExistingUser(phone) == ActiveByPhone(phone) # {}

\* sendOtp is called; the SELECT of the existing user runs
SendOtpQuery(r, phone) ==
  /\ Free(r)
  /\ Accept
  /\ req' = [req EXCEPT ![r] = [NoReq EXCEPT !.op = "sendOtp", !.phone = phone]]
  /\ loc' = [loc EXCEPT ![r] = [NoLoc EXCEPT !.existingUser = ExistingUser(phone)]]
  /\ Goto(r, "s_store")
  /\ UNCHANGED <<now, otpStore, users, profiles, smsLogs, obs, session, catalog>>

\* the entry sendOtp puts into the store
NewEntry(k) == [otp |-> GenerateOtp(k), expiresAt |-> now + OtpTtl]

\* mutant: a pending code is not overwritten
StoreOtp_KeepFirst(m, phone, k) ==
  IF MapHas(m, phone) THEN m ELSE MapSet(m, phone, NewEntry(k))

\* this.otpStore.set(phone, { otp, expiresAt })
StoreOtp(m, phone, k) == MapSet(m, phone, NewEntry(k))

\* the code is generated and stored; the INSERT into sms_logs is issued
SendOtpStore(r, k) ==
  /\ pc[r] = "s_store"
  /\ LET phone == req[r].phone IN
     /\ otpStore' = StoreOtp(otpStore, phone, k)
     /\ loc' = [loc EXCEPT ![r].otp = GenerateOtp(k)]
     /\ obs' = [obs EXCEPT ![phone] =
                  [NoObs EXCEPT !.cur = GenerateOtp(k), !.prev = obs[phone].cur,
                                !.storedAt = now]]
  /\ Goto(r, "s_log")
  /\ UNCHANGED <<calls, now, users, profiles, smsLogs, req, session, catalog>>

\* mutant: the result carries the code that is pending
SendOtpResult_EchoesCode(existingUser) ==
  [NoRes EXCEPT !.ok = TRUE,
     !.msg = IF existingUser
               THEN "OTP sent successfully. Please verify to login."
               ELSE "Phone number not registered. Please complete registration first.",
     !.isRegistered = existingUser,
     !.result = IF DOMAIN otpStore = {} THEN << >>
                ELSE << otpStore[CHOOSE p \in DOMAIN otpStore : TRUE].otp >>]

\* the value sendOtp returns
SendOtpResult(existingUser) ==
  [NoRes EXCEPT !.ok = TRUE,
     !.msg = IF existingUser
               THEN "OTP sent successfully. Please verify to login."
               ELSE "Phone number not registered. Please complete registration first.",
     !.isRegistered = existingUser]

\* the row sendOtp inserts into sms_logs
SmsRow(phone, otp, existingUser) ==
  [phone |-> phone, message |-> otp,
   purpose |-> IF existingUser THEN "login" ELSE "registration", status |-> "sent"]

\* the INSERT into sms_logs runs; sendOtp returns
SendOtpLog(r) ==
  /\ pc[r] = "s_log"
  /\ smsLogs' = smsLogs \cup {SmsRow(req[r].phone, loc[r].otp, loc[r].existingUser)}
  /\ Finish(r, req[r], SendOtpResult(loc[r].existingUser))
  /\ UNCHANGED <<calls, now, otpStore, users, profiles, obs, session, catalog>>

\* -------------------------------------------------------------- verifyOtp
\* mutant: a code expires at its expiresAt already
IsExpired_Inclusive(entry) == entry.expiresAt <= now

\* mutant: a code never expires
IsExpired_Never(entry) == FALSE

\* storedOtp.expiresAt < new Date()
IsExpired(entry) == entry.expiresAt < now

\* mutant: the submitted code is not compared
Differs_Never(entry, otp) == FALSE

\* storedOtp.otp !== otp
Differs(entry, otp) == entry.otp # otp

\* mutant: an expired code is left in the store
StoreAfterExpiry_Keep(m, phone) == m

\* the store after the expiry branch
StoreAfterExpiry(m, phone) == MapDelete(m, phone)

\* mutant: a verified code is left in the store
StoreAfterMatch_Keep(m, phone) == m

\* the store after the match check has passed
StoreAfterMatch(m, phone) == MapDelete(m, phone)

\* mutant: a wrong code removes the pending code
StoreAfterMismatch_Delete(m, phone) == MapDelete(m, phone)

\* the store after the match check has failed
StoreAfterMismatch(m, phone) == m

\* verifyOtp is called: lookup, expiry check, match check and delete
VerifyOtpCheck(r, phone, otp) ==
  /\ Free(r)
  /\ Accept
  /\ LET rq == [NoReq EXCEPT !.op = "verifyOtp", !.phone = phone, !.otp = otp] IN
     IF ~ MapHas(otpStore, phone)
       THEN /\ Finish(r, rq, NotFound)
            /\ UNCHANGED <<otpStore, obs>>
     ELSE IF IsExpired(otpStore[phone])
       THEN /\ otpStore' = StoreAfterExpiry(otpStore, phone)
            /\ Finish(r, rq, Expired)
            /\ obs' = [obs EXCEPT ![phone].gone = "expired"]
     ELSE IF Differs(otpStore[phone], otp)
       THEN /\ otpStore' = StoreAfterMismatch(otpStore, phone)
            /\ Finish(r, rq, Mismatch)
            /\ obs' = [obs EXCEPT ![phone].mismatched = TRUE]
       ELSE /\ otpStore' = StoreAfterMatch(otpStore, phone)
            /\ req' = [req EXCEPT ![r] = rq]
            /\ loc' = [loc EXCEPT ![r] = NoLoc]
            /\ Goto(r, "v_select")
            /\ obs' = [obs EXCEPT ![phone].winner = r, ![phone].winOtp = otp,
                                  ![phone].gone = "matched",
                                  ![phone].matchedAt = now]
  /\ UNCHANGED <<now, users, profiles, smsLogs, session, catalog>>

\* mutant: the SELECT does not filter on status
FoundUsers_AnyStatus(phone) == AnyByPhone(phone)

\* mutant: the SELECT only finds accounts that have logged in before
FoundUsers_SeenBefore(phone) ==
  {i \in ActiveByPhone(phone) : users[i].last_login_at >= 0}

\* the rows the SELECT of the active user can return as rows[0]
FoundUsers(phone) == ActiveByPhone(phone)

\* the SELECT of the active user runs; without a row verifyOtp throws
VerifyOtpFindUser(r) ==
  /\ pc[r] = "v_select"
  /\ LET phone == req[r].phone IN
     IF FoundUsers(phone) = {}
       THEN /\ Finish(r, req[r], AccountNotFound)
            /\ obs' = [obs EXCEPT ![phone].gone =
                         IF obs[phone].winner = r THEN "noaccount" ELSE @]
       ELSE \E i \in FoundUsers(phone) :
            /\ loc' = [loc EXCEPT ![r].user = users[i]]
            /\ Goto(r, "v_update")
            /\ UNCHANGED <<req, obs>>
  /\ UNCHANGED <<calls, now, otpStore, users, profiles, smsLogs, session, catalog>>

\* the payload generateTokens builds from the user row
JwtPayload(user) == [sub |-> user.id, phone |-> user.phone, role |-> user.role]

\* this.jwtService.signAsync(payload, { secret, expiresIn }): the assertion
\* carries the payload and its expiry and is bound to the secret
Sign(payload, secret, expiresIn) ==
  [secret |-> secret, sub |-> payload.sub, phone |-> payload.phone,
   role |-> payload.role, exp |-> now + expiresIn]

\* mutant: the refresh assertion is signed without the account's role
GenerateTokens_RefreshNoRole(user) ==
  [access_token |-> Sign(JwtPayload(user), ConfigGet("jwt.secret"),
                         ConfigGet("jwt.expiresIn")),
   refresh_token |-> Sign([JwtPayload(user) EXCEPT !.role = ""],
                          ConfigGet("jwt.refreshSecret"),
                          ConfigGet("jwt.refreshExpiresIn"))]

\* generateTokens(user)
GenerateTokens(user) ==
  [access_token |-> Sign(JwtPayload(user), ConfigGet("jwt.secret"),
                         ConfigGet("jwt.expiresIn")),
   refresh_token |-> Sign(JwtPayload(user), ConfigGet("jwt.refreshSecret"),
                          ConfigGet("jwt.refreshExpiresIn"))]

\* the clients hold the assertions of one more credential pair
IssuedAfter(tokens) == issued \cup {tokens.access_token, tokens.refresh_token}

\* UPDATE users SET last_login_at = CURRENT_TIMESTAMP WHERE id = $1
TouchLastLogin(tbl, id) ==
  [i \in 1..Len(tbl) |-> IF tbl[i].id = id THEN [tbl[i] EXCEPT !.last_login_at = now]
                                            ELSE tbl[i]]

\* the value verifyOtp returns
VerifyOtpResult(user) ==
  [NoRes EXCEPT !.ok = TRUE, !.access_token = GenerateTokens(user).access_token,
                !.refresh_token = GenerateTokens(user).refresh_token, !.user = user]

\* the UPDATE of last_login_at runs, the tokens are signed, verifyOtp returns
VerifyOtpLogin(r) ==
  /\ pc[r] = "v_update"
  /\ users' = TouchLastLogin(users, loc[r].user.id)
  /\ UNCHANGED profiles
  /\ Finish(r, req[r], VerifyOtpResult(loc[r].user))
  /\ LET phone == req[r].phone IN
     obs' = [obs EXCEPT ![phone].gone = IF obs[phone].winner = r THEN "creds" ELSE @]
  /\ issued' = IssuedAfter(GenerateTokens(loc[r].user))
  /\ UNCHANGED <<calls, now, otpStore, smsLogs, accepted, catalog>>

\* --------------------------------------------------------------- register
\* register is called; the SELECT of a user with this phone runs
RegisterCheck(r, phone, role) ==
  /\ Free(r)
  /\ Accept
  /\ LET rq == [NoReq EXCEPT !.op = "register", !.phone = phone, !.role = role] IN
     IF AnyByPhone(phone) # {}
       THEN Finish(r, rq, Conflict)
       ELSE /\ req' = [req EXCEPT ![r] = rq]
            /\ loc' = [loc EXCEPT ![r] = NoLoc]
            /\ Goto(r, "r_tx")
  /\ UNCHANGED <<now, otpStore, users, profiles, smsLogs, obs, session, catalog>>

\* the user row the transaction inserts
NewUser(rq) ==
  [id |-> Len(users) + 1, phone |-> rq.phone, role |-> rq.role,
   status |-> ACTIVE, last_login_at |-> 0 - 1]

\* the customers table after the role profile of user is created
CustomersAfter(user) ==
  IF user.role = "customer" THEN Append(customers, [user_id |-> user.id]) ELSE customers

\* the providers table after the role profile of user is created
ProvidersAfter(user) ==
  IF user.role = "provider"
    THEN Append(providers, [NoProvider EXCEPT !.id = Len(providers) + 1,
                                              !.user_id = user.id,
                                              !.is_online = FALSE,
                                              !.is_verified = FALSE])
    ELSE providers

\* the provider_wallets table after the role profile of user is created
WalletsAfter(user) ==
  IF user.role = "provider"
    THEN Append(providerWallets, [provider_id |-> Len(providers) + 1])
    ELSE providerWallets

\* the transaction inserts the user row and its role profile and commits;
\* register returns
RegisterTx(r) ==
  /\ pc[r] = "r_tx"
  /\ users' = Append(users, NewUser(req[r]))
  /\ customers' = CustomersAfter(NewUser(req[r]))
  /\ providers' = ProvidersAfter(NewUser(req[r]))
  /\ providerWallets' = WalletsAfter(NewUser(req[r]))
  /\ Finish(r, req[r],
       [NoRes EXCEPT !.ok = TRUE,
                     !.msg = "Registration successful. OTP has been sent to your phone.",
                     !.user = NewUser(req[r])])
  /\ UNCHANGED <<calls, now, otpStore, smsLogs, obs, session, catalog>>

\* ------------------------------------------------------------ users.delete
\* UsersService.delete(userId) for the authenticated (active) user: soft delete
DeleteUser(id) ==
  /\ id \in 1..Len(users)
  /\ users[id].status = ACTIVE
  /\ users' = [users EXCEPT ![id].status = DELETED]
  /\ UNCHANGED profiles
  /\ res' = NoRes
  /\ UNCHANGED <<calls, now, otpStore, smsLogs, pc, req, loc, obs, session, catalog>>

\* ----------------------------------------------------------- refreshToken
\* a string that is not a signed assertion
MalformedToken == [NoToken EXCEPT !.secret = "malformed"]

\* what a client can present: an assertion it was handed, or a malformed string
PresentedTokens == issued \cup {MalformedToken}

\* mutant: an assertion is accepted once only (a revocation list)
JwtVerifies_OnceOnly(token, secret) ==
  /\ token # MalformedToken
  /\ token.secret = secret
  /\ token.exp > now
  /\ ~ MapHas(accepted, token)

\* mutant: the signature is not checked against the secret
JwtVerifies_AnySecret(token, secret) ==
  /\ token # MalformedToken
  /\ token.exp > now

\* this.jwtService.verifyAsync(token, { secret }) resolves: the assertion is
\* well formed, signed with the secret and not expired
JwtVerifies(token, secret) ==
  /\ token # MalformedToken
  /\ token.secret = secret
  /\ token.exp > now

\* the errors raised inside the try block of refreshToken
JwtError          == Throw("JsonWebTokenError", "invalid token")
UserNotFoundError == Throw("UnauthorizedException", "User not found or inactive")

\* catch (error) { throw new UnauthorizedException('Invalid refresh token') }
RefreshCatch(error) == Throw("UnauthorizedException", "Invalid refresh token")

\* refreshToken is called; the assertion is verified with the refresh secret
RefreshVerify(r, token) ==
  /\ Free(r)
  /\ Accept
  /\ LET rq == [NoReq EXCEPT !.op = "refreshToken", !.token = token] IN
     IF ~ JwtVerifies(token, ConfigGet("jwt.refreshSecret"))
       THEN Finish(r, rq, RefreshCatch(JwtError))
       ELSE /\ req' = [req EXCEPT ![r] = rq]
            /\ loc' = [loc EXCEPT ![r] = NoLoc]
            /\ Goto(r, "f_validate")
  /\ UNCHANGED <<now, otpStore, users, profiles, smsLogs, obs, session, catalog>>

\* SELECT * FROM users WHERE id = $1 AND status = 'active'
ValidUsers(userId) ==
  {i \in 1..Len(users) : users[i].id = userId /\ users[i].status = ACTIVE}

\* validateUser(payload.sub) runs its SELECT; without a row it throws, and the
\* catch of refreshToken replaces the error
RefreshValidate(r) ==
  /\ pc[r] = "f_validate"
  /\ IF ValidUsers(req[r].token.sub) = {}
       THEN Finish(r, req[r], RefreshCatch(UserNotFoundError))
       ELSE \E i \in ValidUsers(req[r].token.sub) :
            /\ loc' = [loc EXCEPT ![r].user = users[i]]
            /\ Goto(r, "f_sign")
            /\ UNCHANGED req
  /\ UNCHANGED <<calls, now, otpStore, users, profiles, smsLogs, obs, session, catalog>>

\* the value refreshToken returns
RefreshResult(tokens) ==
  [NoRes EXCEPT !.ok = TRUE, !.access_token = tokens.access_token,
                !.refresh_token = tokens.refresh_token]

\* one more success with assertion t (counted up to 2)
AcceptedAfter(t) ==
  MapSet(accepted, t, IF MapHas(accepted, t) THEN 2 ELSE 1)

\* generateTokens(user) signs the new pair; refreshToken returns it
RefreshSign(r) ==
  /\ pc[r] = "f_sign"
  /\ Finish(r, req[r], RefreshResult(GenerateTokens(loc[r].user)))
  /\ issued' = IssuedAfter(GenerateTokens(loc[r].user))
  /\ accepted' = AcceptedAfter(req[r].token)
  /\ UNCHANGED <<calls, now, otpStore, users, profiles, smsLogs, obs, catalog>>

\* ---------------------------------------------------- findNearbyProviders
\* the bounds of FindNearbyProvidersDto and the defaults of the query
LatitudeMax   == 90
LongitudeMax  == 180
RadiusMin     == 100
RadiusMax     == 50000
LimitMin      == 1
LimitMax      == 50
DefaultRadius == 5000
DefaultLimit  == 10

\* coordinates count thousandths of a degree
UnitsPerDegree == 1000
\* the length taken for one thousandth of a degree
MetresPerUnit  == 100

Abs(n) == IF n < 0 THEN 0 - n ELSE n

\* ST_Distance of two geography points, in metres: the model measures along
\* the parallels and meridians of the grid
Distance(a, b) == (Abs(a.lat - b.lat) + Abs(a.lon - b.lon)) * MetresPerUnit

\* the service ids of the catalogue, and a string that is not a UUID
ServiceIds == {"5e2b1f0a-0000-4000-8000-000000000001",
               "5e2b1f0a-0000-4000-8000-000000000002"}
S1 == "5e2b1f0a-0000-4000-8000-000000000001"
S2 == "5e2b1f0a-0000-4000-8000-000000000002"
NotAUuid == "plumbing"

\* class-validator: @IsUUID(), @IsNumber(), @IsOptional(), @Min(lo), @Max(hi)
IsUUID(v)     == v \in ServiceIds
IsNumber(v)   == v.tag = "number"
IsOptional(v) == v.tag \in {"undefined", "null"}

\* mutant: @Max is checked as a strict bound
MinMax_Exclusive(v, lo, hi) == IsNumber(v) /\ v.val >= lo /\ v.val < hi

\* @IsNumber() @Min(lo) @Max(hi)
MinMax(v, lo, hi) == IsNumber(v) /\ v.val >= lo /\ v.val <= hi

ValidLatitude(v)  ==
  MinMax(v, (0 - LatitudeMax) * UnitsPerDegree, LatitudeMax * UnitsPerDegree)
ValidLongitude(v) ==
  MinMax(v, (0 - LongitudeMax) * UnitsPerDegree, LongitudeMax * UnitsPerDegree)
ValidRadius(v)    == IsOptional(v) \/ MinMax(v, RadiusMin, RadiusMax)
ValidLimit(v)     == IsOptional(v) \/ MinMax(v, LimitMin, LimitMax)

\* the ValidationPipe accepts the body as a FindNearbyProvidersDto
ValidDto(dto) ==
  /\ IsUUID(dto.service_id)
  /\ ValidLatitude(dto.latitude)
  /\ ValidLongitude(dto.longitude)
  /\ ValidRadius(dto.radius_meters)
  /\ ValidLimit(dto.limit)

\* the exception of the ValidationPipe
InvalidInput == Throw("BadRequestException", "Bad Request")

\* const { radius_meters = 5000, limit = 10 } = findDto: the default replaces
\* undefined only
WithDefault(v, d) == IF v = Undefined THEN Num(d) ELSE v

\* the location the query measures from
QueryPoint(dto) == Point(dto.latitude.val, dto.longitude.val)

\* ST_DWithin(location, point, radius): NULL (no match) for a NULL argument
DWithin(location, point, radius) ==
  /\ location.known
  /\ radius.tag = "number"
  /\ Distance(location, point) <= radius.val

\* mutant: the query does not ask for verified providers
Eligible_IgnoresVerified(p, dto) ==
  /\ \E ps \in providerServices :
       ps.provider_id = p.id /\ ps.service_id = dto.service_id /\ ps.is_active
  /\ p.is_online
  /\ \E i \in 1..Len(users) : users[i].id = p.user_id /\ users[i].status = ACTIVE
  /\ p.current_location.known
  /\ DWithin(p.current_location, QueryPoint(dto),
             WithDefault(dto.radius_meters, DefaultRadius))

\* the JOINs and the WHERE clause of the query
Eligible(p, dto) ==
  /\ \E ps \in providerServices :
       ps.provider_id = p.id /\ ps.service_id = dto.service_id /\ ps.is_active
  /\ p.is_online
  /\ p.is_verified
  /\ \E i \in 1..Len(users) : users[i].id = p.user_id /\ users[i].status = ACTIVE
  /\ p.current_location.known
  /\ DWithin(p.current_location, QueryPoint(dto),
             WithDefault(dto.radius_meters, DefaultRadius))

\* the columns of a result row
NearbyRow(p, dto) ==
  [provider_id |-> p.id,
   distance_meters |-> Distance(p.current_location, QueryPoint(dto)),
   average_rating |-> p.average_rating,
   completed_jobs |-> p.completed_jobs]

\* the rows the WHERE clause keeps
Candidates(dto) ==
  {NearbyRow(providers[i], dto) :
     i \in {j \in 1..Len(providers) : Eligible(providers[j], dto)}}

\* how the database orders rows that are equal in all three sort keys
TieBreaks == {"asc", "desc"}

\* mutant: the rating is sorted ascending
Before_RatingAscending(a, b, tb) ==
  \/ a.distance_meters < b.distance_meters
  \/ /\ a.distance_meters = b.distance_meters
     /\ \/ a.average_rating < b.average_rating
        \/ /\ a.average_rating = b.average_rating
           /\ \/ a.completed_jobs > b.completed_jobs
              \/ /\ a.completed_jobs = b.completed_jobs
                 /\ IF tb = "asc" THEN a.provider_id < b.provider_id
                                  ELSE a.provider_id > b.provider_id

\* ORDER BY distance_meters ASC, average_rating DESC, completed_jobs DESC
Before(a, b, tb) ==
  \/ a.distance_meters < b.distance_meters
  \/ /\ a.distance_meters = b.distance_meters
     /\ \/ a.average_rating > b.average_rating
        \/ /\ a.average_rating = b.average_rating
           /\ \/ a.completed_jobs > b.completed_jobs
              \/ /\ a.completed_jobs = b.completed_jobs
                 /\ IF tb = "asc" THEN a.provider_id < b.provider_id
                                  ELSE a.provider_id > b.provider_id

RECURSIVE OrderBy(_, _)
OrderBy(rows, tb) ==
  IF rows = {} THEN << >>
  ELSE LET first == CHOOSE x \in rows : \A y \in rows \ {x} : Before(x, y, tb)
       IN  << first >> \o OrderBy(rows \ {first}, tb)

\* LIMIT $5: a NULL count is no limit
Limit(rows, limit) ==
  IF limit.tag = "number"
    THEN SubSeq(rows, 1, IF limit.val < Len(rows) THEN limit.val ELSE Len(rows))
    ELSE rows

\* the rows the query returns
QueryNearby(dto, tb) ==
  Limit(OrderBy(Candidates(dto), tb), WithDefault(dto.limit, DefaultLimit))

\* mutant: the query takes the providers it returns offline
ProvidersAfterFind_Offline(dto) ==
  [i \in 1..Len(providers) |->
     IF Eligible(providers[i], dto) THEN [providers[i] EXCEPT !.is_online = FALSE]
                                    ELSE providers[i]]

\* the providers table after the SELECT of findNearbyProviders
ProvidersAfterFind(dto) == providers

\* POST /providers/find-nearby: the body is validated, the query runs and
\* its rows are returned
FindNearby(r, dto, tb) ==
  /\ Free(r)
  /\ Accept
  /\ LET rq == [NoReq EXCEPT !.op = "findNearbyProviders", !.dto = dto] IN
     IF ~ ValidDto(dto)
       THEN /\ Finish(r, rq, InvalidInput)
            /\ UNCHANGED providers
       ELSE /\ Finish(r, rq, [NoRes EXCEPT !.ok = TRUE, !.result = QueryNearby(dto, tb)])
            /\ providers' = ProvidersAfterFind(dto)
  /\ UNCHANGED <<now, otpStore, users, customers, providerWallets, smsLogs, obs, session,
                 catalog>>

\* ------------------------------------------------- the providers' own calls
\* the exceptions of the providers service
ProviderProfileNotFound == Throw("NotFoundException", "Provider profile not found")
ProviderNotFound        == Throw("NotFoundException", "Provider not found")
MustBeVerified          ==
  Throw("ForbiddenException", "Provider must be verified before going online")

\* getProviderByUserId: SELECT ... FROM providers p JOIN users u WHERE p.user_id = $1
ProvidersOfUser(userId) ==
  {i \in 1..Len(providers) :
     /\ providers[i].user_id = userId
     /\ \E j \in 1..Len(users) : users[j].id = userId}

\* setOnlineStatus is called; the provider is loaded and must be verified
SetOnlineSelect(r, userId, isOnline) ==
  /\ Free(r)
  /\ Accept
  /\ LET rq == [NoReq EXCEPT !.op = "setOnlineStatus", !.id = userId, !.flag = isOnline] IN
     IF ProvidersOfUser(userId) = {}
       THEN Finish(r, rq, ProviderProfileNotFound)
       ELSE \E i \in ProvidersOfUser(userId) :
            IF ~ providers[i].is_verified
              THEN Finish(r, rq, MustBeVerified)
              ELSE /\ req' = [req EXCEPT ![r] = rq]
                   /\ loc' = [loc EXCEPT ![r] = [NoLoc EXCEPT !.provider = providers[i]]]
                   /\ Goto(r, "o_update")
  /\ UNCHANGED <<now, otpStore, users, profiles, smsLogs, obs, session, catalog>>

\* UPDATE providers SET is_online = $1 WHERE id = $2
SetOnlineUpdate(r) ==
  /\ pc[r] = "o_update"
  /\ providers' = [i \in 1..Len(providers) |->
                     IF providers[i].id = loc[r].provider.id
                       THEN [providers[i] EXCEPT !.is_online = req[r].flag]
                       ELSE providers[i]]
  /\ Finish(r, req[r], [NoRes EXCEPT !.ok = TRUE])
  /\ UNCHANGED <<calls, now, otpStore, users, customers, providerWallets, smsLogs, obs,
                 session, catalog>>

\* verifyProvider (admin): UPDATE providers SET is_verified = $1 WHERE id = $3
VerifyProvider(r, providerId, isVerified) ==
  /\ Free(r)
  /\ Accept
  /\ LET rq == [NoReq EXCEPT !.op = "verifyProvider", !.id = providerId,
                             !.flag = isVerified] IN
     IF \E i \in 1..Len(providers) : providers[i].id = providerId
       THEN /\ providers' = [i \in 1..Len(providers) |->
                               IF providers[i].id = providerId
                                 THEN [providers[i] EXCEPT !.is_verified = isVerified]
                                 ELSE providers[i]]
            /\ Finish(r, rq, [NoRes EXCEPT !.ok = TRUE])
       ELSE /\ Finish(r, rq, ProviderNotFound)
            /\ UNCHANGED providers
  /\ UNCHANGED <<now, otpStore, users, customers, providerWallets, smsLogs, obs, session,
                 catalog>>

\* updateLocation is called; the provider is loaded
UpdateLocationSelect(r, userId, point) ==
  /\ Free(r)
  /\ Accept
  /\ LET rq == [NoReq EXCEPT !.op = "updateLocation", !.id = userId, !.point = point] IN
     IF ProvidersOfUser(userId) = {}
       THEN Finish(r, rq, ProviderProfileNotFound)
       ELSE \E i \in ProvidersOfUser(userId) :
            /\ req' = [req EXCEPT ![r] = rq]
            /\ loc' = [loc EXCEPT ![r] = [NoLoc EXCEPT !.provider = providers[i]]]
            /\ Goto(r, "l_update")
  /\ UNCHANGED <<now, otpStore, users, profiles, smsLogs, obs, session, catalog>>

\* UPDATE providers SET current_location = ... WHERE id = $3
UpdateLocationUpdate(r) ==
  /\ pc[r] = "l_update"
  /\ providers' = [i \in 1..Len(providers) |->
                     IF providers[i].id = loc[r].provider.id
                       THEN [providers[i] EXCEPT !.current_location = req[r].point]
                       ELSE providers[i]]
  /\ Goto(r, "l_log")
  /\ UNCHANGED <<calls, now, otpStore, users, customers, providerWallets, smsLogs, req, loc,
                 obs, session, catalog>>

\* INSERT INTO provider_locations; updateLocation returns
UpdateLocationLog(r) ==
  /\ pc[r] = "l_log"
  /\ providerLocations' = providerLocations \cup
       {[provider_id |-> loc[r].provider.id, location |-> req[r].point]}
  /\ Finish(r, req[r], [NoRes EXCEPT !.ok = TRUE])
  /\ UNCHANGED <<calls, now, otpStore, users, profiles, smsLogs, obs, session,
                 providerServices>>

\* ------------------------------------------------------------------- Next
Next ==
  \/ Tick
  \/ \E r \in Reqs, phone \in Phones : SendOtpQuery(r, phone)
  \/ \E r \in Reqs, k \in RandomDraws : SendOtpStore(r, k)
  \/ \E r \in Reqs : SendOtpLog(r)
  \/ \E r \in Reqs, phone \in Phones, otp \in SubmittedOtps : VerifyOtpCheck(r, phone, otp)
  \/ \E r \in Reqs : VerifyOtpFindUser(r)
  \/ \E r \in Reqs : VerifyOtpLogin(r)
  \/ \E r \in Reqs, phone \in Phones, role \in Roles : RegisterCheck(r, phone, role)
  \/ \E r \in Reqs : RegisterTx(r)
  \/ \E id \in 1..Len(users) : DeleteUser(id)

Spec == Init /\ [][Next]_vars

\* ------------------------------------------------- the session specification
\* The server some time after an account logged in at time 0: the account is
\* active or was suspended since, the client holds the pair minted by that
\* login, and a new code is pending for its identifier.
InitRefresh ==
  /\ now = 0
  /\ \E p \in Phones, st \in {ACTIVE, SUSPENDED}, k \in RandomDraws :
       /\ users = << [id |-> 1, phone |-> p, role |-> "customer", status |-> st,
                      last_login_at |-> 0] >>
       /\ otpStore = StoreOtp(<< >>, p, k)
       /\ obs = [q \in Phones |->
                  IF q = p THEN [NoObs EXCEPT !.cur = GenerateOtp(k), !.storedAt = 0]
                           ELSE NoObs]
       /\ issued = { GenerateTokens([users[1] EXCEPT !.status = ACTIVE]).access_token,
                     GenerateTokens([users[1] EXCEPT !.status = ACTIVE]).refresh_token }
  /\ customers = [i \in 1..Len(users) |-> [user_id |-> users[i].id]]
  /\ providers = << >>
  /\ providerWallets = << >>
  /\ smsLogs = {}
  /\ pc  = [r \in Reqs |-> "idle"]
  /\ req = [r \in Reqs |-> NoReq]
  /\ loc = [r \in Reqs |-> NoLoc]
  /\ res = NoRes
  /\ calls = 0
  /\ accepted = << >>
  /\ providerServices = {}
  /\ providerLocations = {}

NextRefresh ==
  \/ Tick
  \/ \E r \in Reqs, phone \in Phones, otp \in SubmittedOtps : VerifyOtpCheck(r, phone, otp)
  \/ \E r \in Reqs : VerifyOtpFindUser(r)
  \/ \E r \in Reqs : VerifyOtpLogin(r)
  \/ \E r \in Reqs, token \in PresentedTokens : RefreshVerify(r, token)
  \/ \E r \in Reqs : RefreshValidate(r)
  \/ \E r \in Reqs : RefreshSign(r)
  \/ \E id \in 1..Len(users) : DeleteUser(id)

SpecRefresh == InitRefresh /\ [][NextRefresh]_vars

\* ----------------------------------------------- the matching specification
\* The point the seeded providers are placed around (12.971 N, 77.595 E)
BasePoint == Point(12971, 77595)

\* a seeded provider: its distance north of BasePoint (in units), whether it
\* is online and verified, the status of its account, whether its location
\* is known, the service it offers and whether that offering is active, its
\* rating (in tenths) and its completed jobs
SeedRow(off, rating, jobs) ==
  [off |-> off, online |-> TRUE, verified |-> TRUE, status |-> ACTIVE, known |-> TRUE,
   service |-> S1, active |-> TRUE, rating |-> rating, jobs |-> jobs]

\* the providers of the seeded database: eleven that the default query at
\* BasePoint returns, among them ties in distance and rating, and one for each
\* way of failing the query's conditions (the unverified one is offline, as
\* register creates it)
SeedProviders ==
  << SeedRow(12, 45, 10),
     SeedRow(48, 40, 5),
     SeedRow(52, 50, 50),
     [SeedRow(10, 50, 9) EXCEPT !.online = FALSE],
     [SeedRow(10, 50, 9) EXCEPT !.online = FALSE, !.verified = FALSE],
     [SeedRow(10, 50, 9) EXCEPT !.status = SUSPENDED],
     [SeedRow(10, 50, 9) EXCEPT !.known = FALSE],
     [SeedRow(10, 50, 9) EXCEPT !.active = FALSE],
     [SeedRow(10, 50, 9) EXCEPT !.service = S2],
     SeedRow(50, 30, 3),
     SeedRow(12, 45, 20),
     SeedRow(12, 50, 1),
     SeedRow(12, 45, 10),
     SeedRow(20, 41, 2),
     SeedRow(21, 41, 2),
     SeedRow(22, 41, 2),
     SeedRow(23, 41, 2),
     SeedRow(24, 41, 2) >>

SeedPhones ==
  <<
     "+919000000001", "+919000000002", "+919000000003", "+919000000004",
     "+919000000005", "+919000000006", "+919000000007", "+919000000008",
     "+919000000009", "+919000000010", "+919000000011", "+919000000012",
     "+919000000013", "+919000000014", "+919000000015", "+919000000016",
     "+919000000017", "+919000000018" >>

InitNearby ==
  /\ now = 0
  /\ otpStore = << >>
  /\ users = [i \in 1..Len(SeedProviders) |->
                [id |-> i, phone |-> SeedPhones[i], role |-> "provider",
                 status |-> SeedProviders[i].status, last_login_at |-> 0 - 1]]
  /\ customers = << >>
  /\ providers = [i \in 1..Len(SeedProviders) |->
                    [id |-> i, user_id |-> i,
                     is_online |-> SeedProviders[i].online,
                     is_verified |-> SeedProviders[i].verified,
                     current_location |->
                       IF SeedProviders[i].known
                         THEN Point(BasePoint.lat + SeedProviders[i].off, BasePoint.lon)
                         ELSE NoPoint,
                     average_rating |-> SeedProviders[i].rating,
                     completed_jobs |-> SeedProviders[i].jobs]]
  /\ providerWallets = [i \in 1..Len(SeedProviders) |-> [provider_id |-> i]]
  /\ providerServices = {[provider_id |-> i, service_id |-> SeedProviders[i].service,
                          is_active |-> SeedProviders[i].active] :
                           i \in 1..Len(SeedProviders)}
  /\ providerLocations = {}
  /\ smsLogs = {}
  /\ pc  = [r \in Reqs |-> "idle"]
  /\ req = [r \in Reqs |-> NoReq]
  /\ loc = [r \in Reqs |-> NoLoc]
  /\ res = NoRes
  /\ calls = 0
  /\ obs = [p \in Phones |-> NoObs]
  /\ issued = {}
  /\ accepted = << >>

\* the bodies sent to find-nearby: the default query at BasePoint, and that
\* query with one field, or all geo fields, at and beyond its bounds
BaseDto ==
  [service_id |-> S1, latitude |-> Num(BasePoint.lat), longitude |-> Num(BasePoint.lon),
   radius_meters |-> Undefined, limit |-> Undefined]

NearbyDtos ==
  {BaseDto}
  \cup {[BaseDto EXCEPT !.service_id = v] : v \in {S2, NotAUuid}}
  \cup {[BaseDto EXCEPT !.latitude = v] :
          v \in {Undefined, Null,
                 Num((0 - LatitudeMax) * UnitsPerDegree - 1),
                 Num((0 - LatitudeMax) * UnitsPerDegree),
                 Num(LatitudeMax * UnitsPerDegree),
                 Num(LatitudeMax * UnitsPerDegree + 1)}}
  \cup {[BaseDto EXCEPT !.longitude = v] :
          v \in {Num((0 - LongitudeMax) * UnitsPerDegree - 1),
                 Num((0 - LongitudeMax) * UnitsPerDegree),
                 Num(LongitudeMax * UnitsPerDegree),
                 Num(LongitudeMax * UnitsPerDegree + 1)}}
  \cup {[BaseDto EXCEPT !.radius_meters = v] :
          v \in {Null, Num(RadiusMin - 1), Num(RadiusMin), Num(1200), Num(DefaultRadius),
                 Num(RadiusMax), Num(RadiusMax + 1)}}
  \cup {[BaseDto EXCEPT !.limit = v] :
          v \in {Null, Num(LimitMin - 1), Num(LimitMin), Num(2), Num(LimitMax),
                 Num(LimitMax + 1)}}
  \cup {[BaseDto EXCEPT !.radius_meters = Num(RadiusMax), !.limit = Num(2)],
        [BaseDto EXCEPT !.radius_meters = Num(1200), !.limit = Num(2)],
        [BaseDto EXCEPT !.latitude = Num((0 - LatitudeMax) * UnitsPerDegree),
                        !.longitude = Num((0 - LongitudeMax) * UnitsPerDegree),
                        !.radius_meters = Num(RadiusMin), !.limit = Num(LimitMin)],
        [BaseDto EXCEPT !.latitude = Num(LatitudeMax * UnitsPerDegree),
                        !.longitude = Num(LongitudeMax * UnitsPerDegree),
                        !.radius_meters = Num(RadiusMax), !.limit = Num(LimitMax)]}

\* the providers that act in the model (provider id = user id in the seed),
\* and the place they report (60 km north of BasePoint)
NearbyActors == {1, 5}
ReportedPoints == {Point(BasePoint.lat + 600, BasePoint.lon)}
\* the provider that moves, and whose account is deleted
Movers == {1}

NextNearby ==
  \/ \E r \in Reqs, dto \in NearbyDtos, tb \in TieBreaks : FindNearby(r, dto, tb)
  \/ \E r \in Reqs, userId \in NearbyActors, isOnline \in BOOLEAN :
       SetOnlineSelect(r, userId, isOnline)
  \/ \E r \in Reqs : SetOnlineUpdate(r)
  \/ \E r \in Reqs, providerId \in NearbyActors, isVerified \in BOOLEAN :
       VerifyProvider(r, providerId, isVerified)
  \/ \E r \in Reqs, userId \in Movers, point \in ReportedPoints :
       UpdateLocationSelect(r, userId, point)
  \/ \E r \in Reqs : UpdateLocationUpdate(r)
  \/ \E r \in Reqs : UpdateLocationLog(r)
  \/ \E id \in Movers : DeleteUser(id)

SpecNearby == InitNearby /\ [][NextNearby]_vars

\* ------------------------------------------- failures of the collaborators
\* pool.query rejects: DatabaseService.query logs the error and rethrows it
QueryError == Throw("Error", "Connection terminated unexpectedly")
\* jwtService.signAsync rejects
SignError  == Throw("Error", "secretOrPrivateKey must have a value")

\* sendOtp is called; the SELECT of the existing user fails
SendOtpQueryFails(r, phone) ==
  /\ Free(r)
  /\ Accept
  /\ Finish(r, [NoReq EXCEPT !.op = "sendOtp", !.phone = phone], QueryError)
  /\ UNCHANGED <<now, otpStore, users, profiles, smsLogs, obs, session, catalog>>

\* the INSERT into sms_logs fails after the code was stored; the await throws
SendOtpLogFails(r) ==
  /\ pc[r] = "s_log"
  /\ Finish(r, req[r], QueryError)
  /\ UNCHANGED <<calls, now, otpStore, users, profiles, smsLogs, obs, session, catalog>>

\* the SELECT of the active user fails after the code was deleted
VerifyOtpFindUserFails(r) ==
  /\ pc[r] = "v_select"
  /\ Finish(r, req[r], QueryError)
  /\ UNCHANGED <<calls, now, otpStore, users, profiles, smsLogs, obs, session, catalog>>

\* the UPDATE of last_login_at fails
VerifyOtpUpdateFails(r) ==
  /\ pc[r] = "v_update"
  /\ Finish(r, req[r], QueryError)
  /\ UNCHANGED <<calls, now, otpStore, users, profiles, smsLogs, obs, session, catalog>>

\* the UPDATE of last_login_at runs, then signing fails inside generateTokens
VerifyOtpSignFails(r) ==
  /\ pc[r] = "v_update"
  /\ users' = TouchLastLogin(users, loc[r].user.id)
  /\ UNCHANGED profiles
  /\ Finish(r, req[r], SignError)
  /\ UNCHANGED <<calls, now, otpStore, smsLogs, obs, session, catalog>>

\* the values of the enum UserRole that RegisterDto accepts
RegisterRoles == Roles \cup {"admin"}

\* register is called; the SELECT of a user with this phone fails
RegisterCheckFails(r, phone, role) ==
  /\ Free(r)
  /\ Accept
  /\ Finish(r, [NoReq EXCEPT !.op = "register", !.phone = phone, !.role = role],
            QueryError)
  /\ UNCHANGED <<now, otpStore, users, profiles, smsLogs, obs, session, catalog>>

\* the INSERT statements the callback of register runs for a role
StatementCount(role) ==
  IF role = "provider" THEN 3 ELSE IF role = "customer" THEN 2 ELSE 1

\* the tables as the transaction sees them after the first n INSERT statements
Executed(user, n) ==
  [users           |-> IF n >= 1 THEN Append(users, user) ELSE users,
   customers       |-> IF n >= 2 THEN CustomersAfter(user) ELSE customers,
   providers       |-> IF n >= 2 THEN ProvidersAfter(user) ELSE providers,
   providerWallets |-> IF n >= 3 THEN WalletsAfter(user) ELSE providerWallets]

\* mutant: the failed transaction keeps what it wrote
Rollback_KeepsWrites(before, written) == written

\* catch (error) { await client.query('ROLLBACK'); throw error }
Rollback(before, written) == before

\* a statement of the transaction fails after n INSERT statements ran (n equal
\* to the statement count: COMMIT fails); the transaction is rolled back and
\* register throws
RegisterTxFails(r, n) ==
  /\ pc[r] = "r_tx"
  /\ n \in 0..StatementCount(req[r].role)
  /\ LET after == Rollback(Executed(NewUser(req[r]), 0), Executed(NewUser(req[r]), n)) IN
     /\ users' = after.users
     /\ customers' = after.customers
     /\ providers' = after.providers
     /\ providerWallets' = after.providerWallets
  /\ Finish(r, req[r], QueryError)
  /\ UNCHANGED <<calls, now, otpStore, smsLogs, obs, session, catalog>>

\* the SELECT of validateUser fails; the catch of refreshToken replaces the error
RefreshValidateFails(r) ==
  /\ pc[r] = "f_validate"
  /\ Finish(r, req[r], RefreshCatch(QueryError))
  /\ UNCHANGED <<calls, now, otpStore, users, profiles, smsLogs, obs, session, catalog>>

\* signing fails inside generateTokens; the catch of refreshToken replaces the error
RefreshSignFails(r) ==
  /\ pc[r] = "f_sign"
  /\ Finish(r, req[r], RefreshCatch(SignError))
  /\ UNCHANGED <<calls, now, otpStore, users, profiles, smsLogs, obs, session, catalog>>

\* ------------------------------------------------ the failure specification
\* The calls of the auth service with a database and a signer that can fail
NextFail ==
  \/ Tick
  \/ \E r \in Reqs, phone \in Phones : SendOtpQuery(r, phone)
  \/ \E r \in Reqs, phone \in Phones : SendOtpQueryFails(r, phone)
  \/ \E r \in Reqs, k \in RandomDraws : SendOtpStore(r, k)
  \/ \E r \in Reqs : SendOtpLog(r)
  \/ \E r \in Reqs : SendOtpLogFails(r)
  \/ \E r \in Reqs, phone \in Phones, otp \in SubmittedOtps : VerifyOtpCheck(r, phone, otp)
  \/ \E r \in Reqs : VerifyOtpFindUser(r)
  \/ \E r \in Reqs : VerifyOtpFindUserFails(r)
  \/ \E r \in Reqs : VerifyOtpLogin(r)
  \/ \E r \in Reqs : VerifyOtpUpdateFails(r)
  \/ \E r \in Reqs : VerifyOtpSignFails(r)
  \/ \E r \in Reqs, phone \in Phones, role \in RegisterRoles : RegisterCheck(r, phone, role)
  \/ \E r \in Reqs, phone \in Phones, role \in RegisterRoles : RegisterCheckFails(r, phone, role)
  \/ \E r \in Reqs : RegisterTx(r)
  \/ \E r \in Reqs, n \in 0..3 : RegisterTxFails(r, n)
  \/ \E r \in Reqs, token \in PresentedTokens : RefreshVerify(r, token)
  \/ \E r \in Reqs : RefreshValidate(r)
  \/ \E r \in Reqs : RefreshValidateFails(r)
  \/ \E r \in Reqs : RefreshSign(r)
  \/ \E r \in Reqs : RefreshSignFails(r)

SpecFail == Init /\ [][NextFail]_vars

\* -------------------------------------------------- the frame specification
\* Two identifiers calling every operation of the spec
FramePhones == Phones \cup {"+919876543211"}

InitFrame ==
  /\ now = 0
  /\ otpStore = << >>
  /\ users \in InitialUsers
  /\ customers = [i \in 1..Len(users) |-> [user_id |-> users[i].id]]
  /\ providers = << >>
  /\ providerWallets = << >>
  /\ smsLogs = {}
  /\ pc  = [r \in Reqs |-> "idle"]
  /\ req = [r \in Reqs |-> NoReq]
  /\ loc = [r \in Reqs |-> NoLoc]
  /\ res = NoRes
  /\ calls = 0
  /\ obs = [p \in FramePhones |-> NoObs]
  /\ issued = {}
  /\ accepted = << >>
  /\ providerServices = {}
  /\ providerLocations = {}

NextFrame ==
  \/ Tick
  \/ \E r \in Reqs, phone \in FramePhones : SendOtpQuery(r, phone)
  \/ \E r \in Reqs, k \in RandomDraws : SendOtpStore(r, k)
  \/ \E r \in Reqs : SendOtpLog(r)
  \/ \E r \in Reqs, phone \in FramePhones, otp \in SubmittedOtps :
       VerifyOtpCheck(r, phone, otp)
  \/ \E r \in Reqs : VerifyOtpFindUser(r)
  \/ \E r \in Reqs : VerifyOtpLogin(r)
  \/ \E r \in Reqs, phone \in FramePhones, role \in Roles : RegisterCheck(r, phone, role)
  \/ \E r \in Reqs : RegisterTx(r)
  \/ \E r \in Reqs, token \in PresentedTokens : RefreshVerify(r, token)
  \/ \E r \in Reqs : RefreshValidate(r)
  \/ \E r \in Reqs : RefreshSign(r)
  \/ \E r \in Reqs, tb \in TieBreaks : FindNearby(r, BaseDto, tb)

SpecFrame == InitFrame /\ [][NextFrame]_vars

\* ===================================================================
\* The claims
\* ===================================================================
\* the outcome kind of a response, read off the exception and its message
Kind(x) ==
  IF x.ok THEN "OK"
  ELSE IF x.exc = "BadRequestException" /\ x.msg = "OTP not found. Please request a new OTP."
    THEN "NotFound"
  ELSE IF x.exc = "BadRequestException" /\ x.msg = "OTP expired. Please request a new OTP."
    THEN "Expired"
  ELSE IF x.exc = "UnauthorizedException" /\ x.msg = "Invalid OTP"
    THEN "Mismatch"
  ELSE IF x.exc = "UnauthorizedException" /\ x.msg = "User not registered. Please sign up first."
    THEN "AccountNotFound"
  ELSE IF x.exc = "UnauthorizedException" /\ x.msg = "Invalid refresh token"
    THEN "InvalidCredential"
  ELSE IF x.exc = "UnauthorizedException" /\ x.msg = "User not found or inactive"
    THEN "AccountNotFound"
  ELSE IF x.exc = "BadRequestException" /\ x.msg = "Bad Request"
    THEN "InvalidInput"
  ELSE IF x.exc = "ConflictException" THEN "Conflict"
  ELSE IF x.exc = "Error" THEN "Unavailable"
  ELSE "-"

\* the response carries credentials
HasCredentials(x) == x.access_token # NoToken \/ x.refresh_token # NoToken

\* the response is the failure of a verifyOtp(p, c) with the given kind
VerifyFailed(x, p, c, kind) ==
  /\ x.op = "verifyOtp" /\ x.phone = p /\ x.otp = c
  /\ Kind(x) = kind
  /\ ~ HasCredentials(x)

\* C1: single use.  Once a verifyOtp(p, c) has passed the match check and
\* returned credentials, and no sendOtp has stored a code for p since, every
\* verifyOtp(p, c) fails with NotFound and returns no credentials.
C1_SingleUse ==
  [][\A r \in Reqs, p \in Phones, c \in SubmittedOtps :
       (VerifyOtpCheck(r, p, c) /\ obs[p].gone = "creds" /\ obs[p].winOtp = c)
         => VerifyFailed(res', p, c, "NotFound") /\ pc'[r] = "idle"]_vars

C1_Witness ==
  \E p \in Phones :
    /\ VerifyFailed(res, p, obs[p].winOtp, "NotFound")
    /\ obs[p].gone = "creds"

\* C2: single winner.  While a verifyOtp that passed the match check for p is
\* still in flight, a second verifyOtp for p fails with NotFound; no verifyOtp
\* passes the match check when another one has passed it since the last
\* issuance; and the winner, once it has loaded the account, returns credentials.
C2_SingleWinner ==
  [][\A r \in Reqs, p \in Phones, c \in SubmittedOtps :
       /\ ( /\ VerifyOtpCheck(r, p, c)
            /\ \E q \in Reqs \ {r} : /\ pc[q] \in {"v_select", "v_update"}
                                     /\ req[q].phone = p
                                     /\ obs[p].winner = q )
            => VerifyFailed(res', p, c, "NotFound") /\ pc'[r] = "idle"
       /\ (VerifyOtpCheck(r, p, c) /\ pc'[r] = "v_select") => obs[p].winner = 0
       /\ VerifyOtpLogin(r) => Kind(res') = "OK" /\ HasCredentials(res')]_vars

C2_Witness ==
  \E p \in Phones, q \in Reqs :
    /\ pc[q] \in {"v_select", "v_update"}
    /\ req[q].phone = p
    /\ obs[p].winner = q
    /\ VerifyFailed(res, p, req[q].otp, "NotFound")

\* C3 as stated: after two issuances c1 then c2 (c1 # c2) for p, a verifyOtp
\* with c1 fails with Mismatch or NotFound.
C3_Original ==
  [][\A r \in Reqs, p \in Phones, c \in SubmittedOtps :
       (VerifyOtpCheck(r, p, c) /\ c = obs[p].prev /\ c # obs[p].cur)
         => \/ VerifyFailed(res', p, c, "Mismatch")
            \/ VerifyFailed(res', p, c, "NotFound")]_vars

\* C3 as amended: after two issuances c1 then c2 (c1 # c2) for p, a verifyOtp
\* with c1 fails with Mismatch, NotFound or (when the second code has expired)
\* Expired, and a verifyOtp passes the match check only with the code of the
\* last issuance.
C3_ReissueInvalidates ==
  [][\A r \in Reqs, p \in Phones, c \in SubmittedOtps :
       /\ (VerifyOtpCheck(r, p, c) /\ c = obs[p].prev /\ c # obs[p].cur)
            => /\ \/ VerifyFailed(res', p, c, "Mismatch")
                  \/ VerifyFailed(res', p, c, "NotFound")
                  \/ VerifyFailed(res', p, c, "Expired")
               /\ pc'[r] = "idle"
               /\ Kind(res') = "Expired" => now > obs[p].storedAt + OtpTtl
       /\ (VerifyOtpCheck(r, p, c) /\ pc'[r] = "v_select") => c = obs[p].cur]_vars

C3_Witness ==
  \E p \in Phones :
    /\ obs[p].prev # NoOtp
    /\ obs[p].prev # obs[p].cur
    /\ VerifyFailed(res, p, obs[p].prev, "Mismatch")

\* C4: a verifyOtp made more than five minutes after the pending code was
\* stored fails with Expired whatever code it carries and removes the entry;
\* the next verifyOtp without a new issuance fails with NotFound.
C4_Expiry ==
  [][\A r \in Reqs, p \in Phones, c \in SubmittedOtps :
       /\ ( /\ VerifyOtpCheck(r, p, c)
            /\ MapHas(otpStore, p)
            /\ now > obs[p].storedAt + OtpTtl )
            => /\ VerifyFailed(res', p, c, "Expired")
               /\ pc'[r] = "idle"
               /\ ~ MapHas(otpStore', p)
       /\ (VerifyOtpCheck(r, p, c) /\ obs[p].gone = "expired")
            => VerifyFailed(res', p, c, "NotFound")]_vars

C4_Witness ==
  \E p \in Phones, c \in SubmittedOtps :
    /\ obs[p].gone = "expired"
    /\ VerifyFailed(res, p, c, "NotFound")

\* C5: happy path.  A verifyOtp with the pending code, made no later than five
\* minutes after it was stored, passes the expiry and the match check; when an
\* active account exists for the identifier it goes on with one of them, and it
\* then returns an access/refresh pair signed for that account with the account.
C5_HappyPath ==
  [][\A r \in Reqs :
       /\ \A p \in Phones, c \in SubmittedOtps :
            ( /\ VerifyOtpCheck(r, p, c)
              /\ MapHas(otpStore, p)
              /\ c = obs[p].cur
              /\ now <= obs[p].storedAt + OtpTtl )
              => pc'[r] = "v_select" /\ req'[r].phone = p
       /\ (VerifyOtpFindUser(r) /\ ActiveByPhone(req[r].phone) # {})
            => /\ pc'[r] = "v_update"
               /\ \E i \in ActiveByPhone(req[r].phone) : loc'[r].user = users[i]
       /\ VerifyOtpLogin(r)
            => /\ Kind(res') = "OK"
               /\ res'.user = loc[r].user
               /\ res'.access_token.secret = "jwt.secret"
               /\ res'.refresh_token.secret = "jwt.refreshSecret"
               /\ res'.access_token.sub = loc[r].user.id
               /\ res'.refresh_token.sub = loc[r].user.id]_vars

\* a verifyOtp made exactly five minutes after the issuance has returned credentials
C5_Witness ==
  \E p \in Phones :
    /\ res.op = "verifyOtp" /\ res.phone = p /\ Kind(res) = "OK"
    /\ HasCredentials(res)
    /\ obs[p].gone = "creds"
    /\ obs[p].matchedAt = obs[p].storedAt + OtpTtl

\* C6: a verifyOtp that fails with Mismatch leaves the store as it was, and
\* after Mismatch failures a verifyOtp with the code that is still pending, made
\* before its expiry, passes the checks (no lockout).
C6_MismatchKeeps ==
  [][\A r \in Reqs, p \in Phones, c \in SubmittedOtps :
       /\ (VerifyOtpCheck(r, p, c) /\ Kind(res') = "Mismatch")
            => otpStore' = otpStore
       /\ ( /\ VerifyOtpCheck(r, p, c)
            /\ obs[p].mismatched
            /\ MapHas(otpStore, p)
            /\ c = obs[p].cur
            /\ now <= obs[p].storedAt + OtpTtl )
            => /\ pc'[r] = "v_select"
               /\ res' = NoRes]_vars

\* a verifyOtp has passed the checks after a Mismatch failure
C6_Witness ==
  \E p \in Phones, r \in Reqs :
    /\ obs[p].mismatched
    /\ obs[p].winner = r
    /\ pc[r] = "v_select"

\* C7: the pending entry of an identifier is the one written by the last
\* sendOtp store for it: the code of the last issuance with expiresAt five
\* minutes after that store; no earlier code is pending.
C7_LastWriteWins ==
  \A p \in DOMAIN otpStore :
    /\ otpStore[p].otp = obs[p].cur
    /\ otpStore[p].expiresAt = obs[p].storedAt + OtpTtl
    /\ obs[p].gone = "-"

\* two concurrent sendOtp calls have both stored a code
C7_Witness ==
  \E p \in Phones :
    /\ \A r \in Reqs : pc[r] = "s_log" /\ req[r].phone = p
    /\ obs[p].prev # NoOtp
    /\ obs[p].prev # obs[p].cur
    /\ MapHas(otpStore, p)

\* C8: a verifyOtp goes past its checks only if the store held an unexpired
\* entry with the submitted code, goes past the account lookup only with an
\* active account of the identifier, and credentials are returned only by a
\* verifyOtp that went past both.
C8_CredentialsOnlyIf ==
  [][/\ \A r \in Reqs :
          /\ (pc[r] # "v_select" /\ pc'[r] = "v_select")
               => /\ MapHas(otpStore, req'[r].phone)
                  /\ otpStore[req'[r].phone].expiresAt >= now
                  /\ otpStore[req'[r].phone].otp = req'[r].otp
          /\ (pc[r] # "v_update" /\ pc'[r] = "v_update")
               => /\ pc[r] = "v_select"
                  /\ \E i \in 1..Len(users) :
                        /\ users[i].phone = req[r].phone
                        /\ users[i].status = ACTIVE
                        /\ loc'[r].user = users[i]
     /\ (res'.op = "verifyOtp" /\ (res'.ok \/ HasCredentials(res')))
          => \E r \in Reqs :
               /\ pc[r] = "v_update" /\ pc'[r] = "idle"
               /\ res'.phone = req[r].phone
               /\ res'.access_token.sub = loc[r].user.id]_vars

\* a verifyOtp has returned credentials for an active account
C8_Witness ==
  /\ res.op = "verifyOtp" /\ res.ok
  /\ HasCredentials(res)
  /\ res.user.id \in 1..Len(users)
  /\ res.user.status = ACTIVE
  /\ res.user.phone = res.phone

\* C9: a verifyOtp for an identifier without a pending entry fails with
\* NotFound at once: the store and the tables are unchanged, the request does
\* not go on to the account lookup, and no credentials are returned.
C9_NotFoundEarly ==
  [][\A r \in Reqs, p \in Phones, c \in SubmittedOtps :
       (VerifyOtpCheck(r, p, c) /\ ~ MapHas(otpStore, p))
         => /\ VerifyFailed(res', p, c, "NotFound")
            /\ res'.exc = "BadRequestException"
            /\ pc'[r] = "idle"
            /\ UNCHANGED <<otpStore, users, profiles, smsLogs>>]_vars

\* a verifyOtp for an identifier that never had a code has failed with NotFound
C9_Witness ==
  \E p \in Phones, c \in SubmittedOtps :
    /\ obs[p].cur = NoOtp
    /\ VerifyFailed(res, p, c, "NotFound")

\* C10: a verifyOtp that passed the match check and finds no active account
\* fails with AccountNotFound, updates no user row and returns no credentials;
\* its code is consumed: a retry with the same code, without a new issuance,
\* fails with NotFound.
C10_AccountNotFound ==
  [][\A r \in Reqs :
       /\ (VerifyOtpFindUser(r) /\ ActiveByPhone(req[r].phone) = {})
            => /\ VerifyFailed(res', req[r].phone, req[r].otp, "AccountNotFound")
               /\ pc'[r] = "idle"
               /\ users' = users
               /\ ~ MapHas(otpStore, req[r].phone) \/ obs[req[r].phone].winner # r
       /\ \A p \in Phones, c \in SubmittedOtps :
            (VerifyOtpCheck(r, p, c) /\ obs[p].gone = "noaccount" /\ obs[p].winOtp = c)
              => VerifyFailed(res', p, c, "NotFound")]_vars

\* the retry after an AccountNotFound failure for a deleted account has failed
C10_Witness ==
  \E p \in Phones :
    /\ obs[p].gone = "noaccount"
    /\ VerifyFailed(res, p, obs[p].winOtp, "NotFound")
    /\ \E i \in 1..Len(users) : users[i].phone = p /\ users[i].status = DELETED

\* C11: sendOtp reports isRegistered = TRUE exactly when, at its SELECT (the
\* time of the call), an active account exists for the identifier: FALSE
\* without an account and for a suspended or deleted one, TRUE after a
\* register; and in both cases it stores a pending code for the identifier.
C11_IsRegistered ==
  [][\A r \in Reqs :
       /\ \A p \in Phones :
            SendOtpQuery(r, p)
              => /\ loc'[r].existingUser =
                      (\E i \in 1..Len(users) : /\ users[i].phone = p
                                                /\ users[i].status = ACTIVE)
                 /\ pc'[r] = "s_store"
       /\ \A k \in RandomDraws :
            SendOtpStore(r, k)
              => /\ MapHas(otpStore', req[r].phone)
                 /\ otpStore'[req[r].phone].otp = GenerateOtp(k)
                 /\ loc'[r].existingUser = loc[r].existingUser
       /\ SendOtpLog(r)
            => /\ res'.op = "sendOtp" /\ res'.ok
               /\ res'.phone = req[r].phone
               /\ res'.isRegistered = loc[r].existingUser]_vars

\* a sendOtp for an identifier whose account was deleted has returned
\* isRegistered = FALSE, with its code pending
C11_Witness ==
  \E p \in Phones :
    /\ res.op = "sendOtp" /\ res.ok /\ res.phone = p
    /\ ~ res.isRegistered
    /\ MapHas(otpStore, p)
    /\ \E i \in 1..Len(users) : users[i].phone = p /\ users[i].status = DELETED

\* the response is the failure of a refreshToken(t) with the given kind
RefreshFailed(x, t, kind) ==
  /\ x.op = "refreshToken" /\ x.token = t
  /\ Kind(x) = kind
  /\ ~ HasCredentials(x)

\* the assertion is one generateTokens signed with the given secret
SignedWith(t, key) == t \in issued /\ t.secret = ConfigGet(key)

\* C12: a refreshToken called with an access assertion (signed by
\* generateTokens with the access secret), expired or not, fails with
\* InvalidCredential, goes on to no account lookup and mints nothing.
C12_AccessAssertionRejected ==
  [][\A r \in Reqs, t \in PresentedTokens :
       (RefreshVerify(r, t) /\ SignedWith(t, "jwt.secret"))
         => /\ RefreshFailed(res', t, "InvalidCredential")
            /\ pc'[r] = "idle"
            /\ issued' = issued]_vars

\* a refreshToken with an unexpired access assertion has failed
C12_Witness ==
  /\ SignedWith(res.token, "jwt.secret")
  /\ res.token.exp > now
  /\ RefreshFailed(res, res.token, "InvalidCredential")

C14_NoRevocation ==
  [][\A r \in Reqs :
       /\ \A t \in PresentedTokens :
            /\ ( /\ RefreshVerify(r, t)
                 /\ SignedWith(t, "jwt.refreshSecret")
                 /\ t.exp > now )
                 => pc'[r] = "f_validate" /\ req'[r].token = t
            /\ RefreshVerify(r, t)
                 => UNCHANGED <<otpStore, users, profiles, smsLogs>>
       /\ RefreshValidate(r)
            => /\ UNCHANGED <<otpStore, users, profiles, smsLogs>>
               /\ (\E i \in 1..Len(users) : /\ users[i].id = req[r].token.sub
                                             /\ users[i].status = ACTIVE)
                    => pc'[r] = "f_sign"
       /\ RefreshSign(r)
            => /\ UNCHANGED <<otpStore, users, profiles, smsLogs>>
               /\ res'.ok /\ res'.op = "refreshToken"
               /\ res'.refresh_token.secret = ConfigGet("jwt.refreshSecret")
               /\ res'.refresh_token.exp = now + RefreshTtl
               /\ {req[r].token, res'.refresh_token} \subseteq issued']_vars

\* a refreshToken has succeeded with an assertion it had accepted before, after
\* an assertion minted by a refreshToken was accepted too
C14_Witness ==
  /\ res.op = "refreshToken" /\ res.ok
  /\ MapHas(accepted, res.token) /\ accepted[res.token] = 2
  /\ \A i \in 1..Len(users) : users[i].last_login_at = 0
  /\ \E t \in DOMAIN accepted : t.exp > RefreshTtl

\* C15: the two assertions of a pair minted by verifyOtp or refreshToken carry
\* the same sub, phone and role, those of the account row the call loaded (for
\* refreshToken the row selected by the sub of the assertion it was given).
C15_PairClaims ==
  [][\A r \in Reqs :
       /\ RefreshValidate(r) /\ pc'[r] = "f_sign"
            => \E i \in 1..Len(users) : /\ users[i].id = req[r].token.sub
                                        /\ loc'[r].user = users[i]
       /\ (VerifyOtpLogin(r) \/ RefreshSign(r))
            => /\ HasCredentials(res')
               /\ \A t \in {res'.access_token, res'.refresh_token} :
                    /\ t.sub = loc[r].user.id
                    /\ t.phone = loc[r].user.phone
                    /\ t.role = loc[r].user.role
               /\ res'.access_token.secret = ConfigGet("jwt.secret")
               /\ res'.refresh_token.secret = ConfigGet("jwt.refreshSecret")]_vars

\* a refreshToken has returned a pair after a verifyOtp minted one
C15_Witness ==
  /\ res.op = "refreshToken" /\ res.ok
  /\ res.access_token.sub = res.refresh_token.sub
  /\ res.access_token.role = res.refresh_token.role
  /\ res.refresh_token.sub = res.token.sub
  /\ \E i \in 1..Len(users) : users[i].last_login_at > 0

\* the response res' answers a find-nearby request with body dto
FoundNearby(x, dto) == x.op = "findNearbyProviders" /\ x.dto = dto /\ x.ok

\* the radius and the limit a body asks for: the supplied number, or the default
RadiusOf(dto) ==
  IF dto.radius_meters.tag = "number" THEN dto.radius_meters.val ELSE DefaultRadius
LimitOf(dto) ==
  IF dto.limit.tag = "number" THEN dto.limit.val ELSE DefaultLimit

\* C16: every row findNearbyProviders returns is a provider that, in the
\* tables the query read, has an active offering of the requested service, is
\* online and verified, has an active account and a known location, and lies
\* within the radius; the row carries that distance.
C16_OnlyEligible ==
  [][\A r \in Reqs, tb \in TieBreaks :
       LET dto == res'.dto IN
         (FindNearby(r, dto, tb) /\ FoundNearby(res', dto))
           => \A k \in 1..Len(res'.result) :
                \E i \in 1..Len(providers) :
                  /\ providers[i].id = res'.result[k].provider_id
                  /\ [provider_id |-> providers[i].id, service_id |-> dto.service_id,
                      is_active |-> TRUE] \in providerServices
                  /\ providers[i].is_online
                  /\ providers[i].is_verified
                  /\ \E j \in 1..Len(users) : /\ users[j].id = providers[i].user_id
                                              /\ users[j].status = ACTIVE
                  /\ providers[i].current_location.known
                  /\ res'.result[k].distance_meters =
                       Distance(providers[i].current_location,
                                Point(dto.latitude.val, dto.longitude.val))
                  /\ res'.result[k].distance_meters <= RadiusOf(dto)]_vars

\* a query has returned providers while an online, unverified provider with
\* an active offering of the service stood inside the radius
C16_Witness ==
  /\ res.op = "findNearbyProviders" /\ res.ok
  /\ Len(res.result) > 0
  /\ \E i \in 1..Len(providers) :
       /\ providers[i].is_online /\ ~ providers[i].is_verified
       /\ providers[i].current_location.known
       /\ Distance(providers[i].current_location,
                   Point(res.dto.latitude.val, res.dto.longitude.val)) <= RadiusOf(res.dto)
       /\ [provider_id |-> providers[i].id, service_id |-> res.dto.service_id,
           is_active |-> TRUE] \in providerServices
       /\ \A k \in 1..Len(res.result) : res.result[k].provider_id # providers[i].id

\* row a may stand directly before row b in the ranking
RankedBefore(a, b) ==
  \/ a.distance_meters < b.distance_meters
  \/ /\ a.distance_meters = b.distance_meters
     /\ \/ a.average_rating > b.average_rating
        \/ /\ a.average_rating = b.average_rating
           /\ a.completed_jobs >= b.completed_jobs

\* C17: the rows findNearbyProviders returns are ordered by distance
\* ascending, then rating descending, then completed jobs descending.
C17_Ordered ==
  [][\A r \in Reqs, tb \in TieBreaks :
       LET dto == res'.dto IN
         (FindNearby(r, dto, tb) /\ FoundNearby(res', dto))
           => \A k \in 1..(Len(res'.result) - 1) :
                RankedBefore(res'.result[k], res'.result[k + 1])]_vars

\* a result holds neighbours at the same distance with different ratings, and
\* neighbours equal in distance and rating with different job counts
C17_Witness ==
  /\ res.op = "findNearbyProviders" /\ res.ok
  /\ \E k \in 1..(Len(res.result) - 1) :
       /\ res.result[k].distance_meters = res.result[k + 1].distance_meters
       /\ res.result[k].average_rating > res.result[k + 1].average_rating
  /\ \E k \in 1..(Len(res.result) - 1) :
       /\ res.result[k].distance_meters = res.result[k + 1].distance_meters
       /\ res.result[k].average_rating = res.result[k + 1].average_rating
       /\ res.result[k].completed_jobs > res.result[k + 1].completed_jobs

\* C18 as stated: findNearbyProviders returns at most limit rows, limit being
\* the supplied number or 10 without one, and every row lies within the
\* supplied radius or 5000 without one.
C18_Original ==
  [][\A r \in Reqs, tb \in TieBreaks :
       LET dto == res'.dto IN
         (FindNearby(r, dto, tb) /\ FoundNearby(res', dto))
           => /\ Len(res'.result) <= LimitOf(dto)
              /\ \A k \in 1..Len(res'.result) :
                   res'.result[k].distance_meters <= RadiusOf(dto)]_vars

\* C19: a findNearbyProviders call, accepted or rejected, leaves the
\* providers, their offerings, the accounts, the location history, the other
\* tables and the pending codes as they were.
C19_ReadOnly ==
  [][\A r \in Reqs, tb \in TieBreaks :
       LET dto == res'.dto IN
         FindNearby(r, dto, tb)
           => /\ providers' = providers
              /\ providerServices' = providerServices
              /\ users' = users
              /\ providerLocations' = providerLocations
              /\ otpStore' = otpStore
              /\ UNCHANGED <<customers, providerWallets, smsLogs>>]_vars

\* a query has returned providers from tables that hold location history
C19_Witness ==
  /\ res.op = "findNearbyProviders" /\ res.ok
  /\ Len(res.result) > 0
  /\ providerLocations # {}

\* the number v lies outside [lo, hi]
Outside(v, lo, hi) == v.tag = "number" /\ (v.val < lo \/ v.val > hi)
\* the number v lies inside [lo, hi]
Inside(v, lo, hi)  == v.tag = "number" /\ v.val >= lo /\ v.val <= hi

\* C20: a body whose latitude, longitude, supplied radius_meters or supplied
\* limit lies outside its range is rejected with InvalidInput and no query
\* result; a body with a valid service id whose latitude and longitude lie
\* inside their ranges and whose radius_meters and limit are absent or inside
\* theirs (bounds included) is accepted.
C20_GeoValidation ==
  [][\A r \in Reqs, tb \in TieBreaks :
       LET dto == res'.dto IN
         FindNearby(r, dto, tb)
           => /\ ( \/ Outside(dto.latitude, 0 - 90000, 90000)
                   \/ Outside(dto.longitude, 0 - 180000, 180000)
                   \/ Outside(dto.radius_meters, 100, 50000)
                   \/ Outside(dto.limit, 1, 50) )
                 => /\ res'.op = "findNearbyProviders" /\ res'.dto = dto
                    /\ Kind(res') = "InvalidInput"
                    /\ res'.result = << >>
              /\ ( /\ dto.service_id \in ServiceIds
                   /\ Inside(dto.latitude, 0 - 90000, 90000)
                   /\ Inside(dto.longitude, 0 - 180000, 180000)
                   /\ dto.radius_meters = Undefined \/ Inside(dto.radius_meters, 100, 50000)
                   /\ dto.limit = Undefined \/ Inside(dto.limit, 1, 50) )
                 => FoundNearby(res', dto)]_vars

\* a body with every geo parameter at its upper bound has been accepted
C20_Witness ==
  /\ res.op = "findNearbyProviders" /\ res.ok
  /\ res.dto.latitude = Num(90000)
  /\ res.dto.longitude = Num(180000)
  /\ res.dto.radius_meters = Num(50000)
  /\ res.dto.limit = Num(50)

\* C21: a failure of the database or of signing during sendOtp, verifyOtp or
\* refreshToken reaches the caller as an Unavailable failure: never as a
\* success, and never as InvalidCredential, NotFound, Expired, Mismatch or
\* AccountNotFound.
C21_Original ==
  [][\A r \in Reqs, p \in Phones :
       (\/ SendOtpQueryFails(r, p) \/ SendOtpLogFails(r)
        \/ VerifyOtpFindUserFails(r) \/ VerifyOtpUpdateFails(r) \/ VerifyOtpSignFails(r)
        \/ RefreshValidateFails(r) \/ RefreshSignFails(r))
       => Kind(res') = "Unavailable"]_vars

\* C22: the audit record of sendOtp is fire-and-forget.  Whether the INSERT
\* into sms_logs succeeds or fails, sendOtp returns its dispatched result, so
\* a sendOtp reports success exactly when it stored a pending code.
C22_Original ==
  [][\A r \in Reqs, p \in Phones :
       (SendOtpQueryFails(r, p) \/ SendOtpLog(r) \/ SendOtpLogFails(r))
       => (res'.ok <=> loc[r].otp # NoOtp)]_vars


\* C23: the value sendOtp returns never contains the generated code.  It is
\* determined by the identifier and by whether an active account exists:
\* {success, message, isRegistered} and nothing else, so two runs that differ
\* only in the code generated return the same value.
C23_ResultWithoutCode ==
  [][\A r \in Reqs :
       SendOtpLog(r) =>
         LET e == loc[r].existingUser IN
         /\ loc[r].otp # NoOtp
         /\ res' = [NoRes EXCEPT
                      !.op = "sendOtp", !.phone = req[r].phone, !.ok = TRUE,
                      !.msg = IF e THEN "OTP sent successfully. Please verify to login."
                              ELSE "Phone number not registered. Please complete registration first.",
                      !.isRegistered = e]]_vars

\* a sendOtp has returned after two sendOtp calls generated different codes
C23_Witness ==
  \E p \in Phones :
    /\ res.op = "sendOtp" /\ res.phone = p /\ res.ok
    /\ obs[p].prev # NoOtp /\ obs[p].prev # obs[p].cur
    /\ \E row \in smsLogs : row.phone = p /\ row.message = obs[p].cur


\* C24: the pending entry of an identifier p changes only in three ways:
\* sendOtp(p) creates or overwrites it, a verifyOtp(p) that passes the match
\* check removes it, and a verifyOtp(p) that detects expiry removes it.  No
\* call for another identifier and no register, refreshToken or
\* findNearbyProviders call creates, changes or removes it.
C24_PendingFrame ==
  [][\A p \in FramePhones :
       (\/ MapHas(otpStore, p) # MapHas(otpStore', p)
        \/ (MapHas(otpStore, p) /\ MapHas(otpStore', p) /\ otpStore[p] # otpStore'[p]))
       => \E r \in Reqs :
            \/ /\ \E k \in RandomDraws : SendOtpStore(r, k)
               /\ req[r].op = "sendOtp" /\ req[r].phone = p
               /\ MapHas(otpStore', p)
            \/ /\ \E c \in SubmittedOtps : VerifyOtpCheck(r, p, c)
               /\ ~ MapHas(otpStore', p)
               /\ \/ pc'[r] = "v_select" /\ req'[r].otp = otpStore[p].otp
                  \/ Kind(res') = "Expired" /\ now > otpStore[p].expiresAt]_vars

\* a verifyOtp for one identifier removed its entry while the entry of the
\* other identifier stayed pending
C24_Witness ==
  \E p \in FramePhones, q \in FramePhones :
    /\ p # q
    /\ MapHas(otpStore, p) /\ otpStore[p].otp = obs[p].cur
    /\ ~ MapHas(otpStore, q) /\ obs[q].gone = "matched"


\* provider i satisfies the filtering predicate for the body (a distance equal
\* to the radius counts as inside)
Satisfies(i, dto) ==
  /\ [provider_id |-> providers[i].id, service_id |-> dto.service_id,
      is_active |-> TRUE] \in providerServices
  /\ providers[i].is_online
  /\ providers[i].is_verified
  /\ \E j \in 1..Len(users) : users[j].id = providers[i].user_id /\ users[j].status = ACTIVE
  /\ providers[i].current_location.known
  /\ Distance(providers[i].current_location,
              Point(dto.latitude.val, dto.longitude.val)) <= RadiusOf(dto)

\* the smaller of two numbers
Min(a, b) == IF a < b THEN a ELSE b

\* C25: findNearbyProviders is complete up to the limit.  With n providers
\* satisfying the filtering predicate, the result holds min(limit, n) rows,
\* each of a satisfying provider, and no satisfying provider is left out
\* while a provider ranked after it is returned.
C25_Original ==
  [][\A r \in Reqs, tb \in TieBreaks :
       LET dto == res'.dto
           all == {i \in 1..Len(providers) : Satisfies(i, dto)}
           got == {res'.result[k].provider_id : k \in 1..Len(res'.result)}
       IN (FindNearby(r, dto, tb) /\ FoundNearby(res', dto))
            => /\ Len(res'.result) = Min(LimitOf(dto), Cardinality(all))
               /\ Cardinality(got) = Len(res'.result)
               /\ got \subseteq {providers[i].id : i \in all}
               /\ \A i \in all :
                    providers[i].id \notin got
                      => \A k \in 1..Len(res'.result) :
                           RankedBefore(res'.result[k],
                             [provider_id |-> providers[i].id,
                              distance_meters |->
                                Distance(providers[i].current_location,
                                         Point(dto.latitude.val, dto.longitude.val)),
                              average_rating |-> providers[i].average_rating,
                              completed_jobs |-> providers[i].completed_jobs])]_vars


\* C26: sendOtp(p), then register(p), then verifyOtp(p, code) within five
\* minutes and with no verifyOtp(p) before register: the verifyOtp succeeds
\* and returns credentials for the new account without a second sendOtp.
\* Step by step: register leaves the pending code alone; a verifyOtp with the
\* pending, unexpired code passes the checks; its SELECT finds the account
\* registered since the code was sent; it returns credentials for that account.
C26_RegisterThenVerify ==
  [][\A r \in Reqs, p \in Phones :
       /\ ((\E role \in Roles : RegisterCheck(r, p, role)) \/ RegisterTx(r))
            => otpStore' = otpStore
       /\ \A c \in SubmittedOtps :
            (/\ VerifyOtpCheck(r, p, c)
             /\ MapHas(otpStore, p) /\ otpStore[p].otp = c
             /\ now <= otpStore[p].expiresAt)
            => pc'[r] = "v_select" /\ req'[r].phone = p
       /\ (/\ VerifyOtpFindUser(r) /\ req[r].phone = p
           /\ \E row \in smsLogs : /\ row.phone = p /\ row.message = req[r].otp
                                   /\ row.purpose = "registration"
           /\ ActiveByPhone(p) # {})
            => /\ pc'[r] = "v_update"
               /\ loc'[r].user.phone = p /\ loc'[r].user.status = ACTIVE
       /\ (VerifyOtpLogin(r) /\ req[r].phone = p)
            => /\ Kind(res') = "OK" /\ HasCredentials(res')
               /\ res'.user = loc[r].user
               /\ res'.access_token.sub = loc[r].user.id
               /\ res'.refresh_token.sub = loc[r].user.id]_vars

\* the code of the only sendOtp, sent while no account existed, has been
\* redeemed for credentials of the account registered afterwards
C26_Witness ==
  \E p \in Phones :
    /\ res.op = "verifyOtp" /\ res.phone = p /\ res.ok /\ HasCredentials(res)
    /\ obs[p].prev = NoOtp /\ obs[p].cur = res.otp /\ ~ obs[p].mismatched
    /\ \E row \in smsLogs : /\ row.phone = p /\ row.message = res.otp
                            /\ row.purpose = "registration"
    /\ res.user.id = Len(users) /\ res.user.phone = p
    /\ res.access_token.sub = res.user.id
    /\ calls = 3


\* C27: AccountNotFound is recoverable by re-registration.  For an identifier
\* whose only account was deleted (status deleted), a register with that
\* identifier passes the existence check and goes on to create an account.
C27_Original ==
  [][\A r \in Reqs, p \in Phones, role \in Roles :
       (/\ RegisterCheck(r, p, role)
        /\ AnyByPhone(p) # {}
        /\ \A i \in AnyByPhone(p) : users[i].status = DELETED)
       => /\ Kind(res') # "Conflict"
          /\ pc'[r] = "r_tx"]_vars


\* C28: after any interleaving of concurrent register calls at most one user
\* row exists per phone number.
C28_Original ==
  \A i \in 1..Len(users), j \in 1..Len(users) :
    users[i].phone = users[j].phone => i = j


\* the role profile of user row u exists in the given tables
HasProfile(u, cs, ps, ws) ==
  /\ u.role = "customer" => \E k \in 1..Len(cs) : cs[k].user_id = u.id
  /\ u.role = "provider" =>
       \E k \in 1..Len(ps) : /\ ps[k].user_id = u.id
                             /\ \E w \in 1..Len(ws) : ws[w].provider_id = ps[k].id

\* C29: register is all-or-nothing.  A register that returns success has
\* added the user row and its role profile (a customer row, or a provider row
\* that is offline and unverified plus a wallet row); a register that fails
\* has added no row; and no user row is ever without its role profile.
C29_AllOrNothing ==
  [][/\ \A r \in Reqs :
          RegisterTx(r) =>
            /\ Kind(res') = "OK"
            /\ Len(users') = Len(users) + 1
            /\ users'[Len(users')].phone = req[r].phone
            /\ users'[Len(users')].role = req[r].role
            /\ req[r].role = "provider" =>
                 /\ Len(providers') = Len(providers) + 1
                 /\ providers'[Len(providers')].user_id = users'[Len(users')].id
                 /\ ~ providers'[Len(providers')].is_online
                 /\ ~ providers'[Len(providers')].is_verified
     /\ (res'.op = "register" /\ Kind(res') # "OK")
          => /\ users' = users
             /\ customers' = customers
             /\ providers' = providers
             /\ providerWallets' = providerWallets
     /\ \A i \in 1..Len(users') :
          HasProfile(users'[i], customers', providers', providerWallets')]_vars

\* a register has failed on a database error while the provider account a
\* register created for the same phone stands with its profile and wallet
C29_Witness ==
  /\ res.op = "register" /\ Kind(res) = "Unavailable"
  /\ \E i \in 1..Len(users) :
       /\ users[i].role = "provider" /\ users[i].phone = res.phone
       /\ HasProfile(users[i], customers, providers, providerWallets)
  /\ Len(providerWallets) = 1


\* C30: after any sequence and interleaving of register, verifyProvider and
\* setOnlineStatus calls, every provider that is online is verified.
C30_Original ==
  \A i \in 1..Len(providers) : providers[i].is_online => providers[i].is_verified


TypeOK ==
  /\ now \in 0..MaxTime
  /\ DOMAIN otpStore \subseteq FramePhones
====
